---- MODULE Spec2Model ----
(***************************************************************************)
(* A model of the CHIP-8 interpreter of chip8.c: the machine state (the    *)
(* globals of chip8.c), load_rom, tick, update_timers and the part of      *)
(* main that drives them (the event switch and the handling of tick's      *)
(* result).                                                                *)
(*                                                                         *)
(* main runs ticks_per_frame ticks and then update_timers once.  A tick    *)
(* taken while user_pause is set changes nothing, and Ctrl+P can be        *)
(* pressed before any tick, so every machine state reached by some         *)
(* interleaving of ticks and timer updates is reached by the frame loop    *)
(* too; the frame counter is therefore not part of the state and           *)
(* UpdateTimers may follow any tick.  Of the place main is at, the state   *)
(* keeps phase and ticked: whether the last thing main did was to run      *)
(* tick and test its result.                                               *)
(*                                                                         *)
(* mem, the array of 4096 bytes, is kept as the function from the          *)
(* addresses of its non-zero bytes to those bytes: MemGet reads a byte,    *)
(* MemSet stores one.                                                      *)
(***************************************************************************)
EXTENDS Integers, Sequences, FiniteSets, TLC

VARIABLES mem, stack, sp, v, i, pc, dt, st, screen, keys,
          guru_meditation, user_pause, prompting, res, phase, rom, oob,
          ticked

machine == <<mem, stack, sp, v, i, pc, dt, st, screen, keys, prompting>>
vars == <<mem, stack, sp, v, i, pc, dt, st, screen, keys,
          guru_meditation, user_pause, prompting, res, phase, rom, oob,
          ticked>>

(***************************************************************************)
(* Sizes of the program's arrays and its other constants.                  *)
(***************************************************************************)
MemSize == 4096
StackSize == 16
NumRegs == 16
NumKeys == 16
width == 64
height == 32
LoadAddr == 512
FontSize == 80

(***************************************************************************)
(* Bounds of the model.                                                    *)
(***************************************************************************)
\* the host presses and releases the keys 0..MaxKey
MaxKey == 1
\* the longest chain of calls of the model fills the 16 slots of the stack
\* and makes MaxOverflow calls more
MaxOverflow == 1

Byte == 0..255
Word16 == 0..65535

font ==
  << 240, 144, 144, 144, 240,   32,  96,  32,  32, 112,
     240,  16, 240, 128, 240,  240,  16, 240,  16, 240,
     144, 144, 240,  16,  16,  240, 128, 240,  16, 240,
     240, 128, 240, 144, 240,  240,  16,  32,  64,  64,
     240, 144, 240, 144, 240,  240, 144, 240,  16, 240,
     240, 144, 240, 144, 144,  224, 144, 224, 144, 224,
     240, 128, 128, 128, 240,  224, 144, 144, 144, 224,
     240, 128, 240, 128, 240,  240, 128, 240, 128, 128 >>

(***************************************************************************)
(* Bitwise operators of C on non-negative integers.                        *)
(***************************************************************************)
RECURSIVE BitAnd(_, _)
BitAnd(a, b) ==
  IF a = 0 \/ b = 0 THEN 0
  ELSE (a % 2) * (b % 2) + 2 * BitAnd(a \div 2, b \div 2)

RECURSIVE BitOr(_, _)
BitOr(a, b) ==
  IF a = 0 THEN b
  ELSE IF b = 0 THEN a
  ELSE (IF a % 2 = 1 \/ b % 2 = 1 THEN 1 ELSE 0) + 2 * BitOr(a \div 2, b \div 2)

RECURSIVE BitXor(_, _)
BitXor(a, b) ==
  IF a = 0 THEN b
  ELSE IF b = 0 THEN a
  ELSE ((a + b) % 2) + 2 * BitXor(a \div 2, b \div 2)

\* mem[a], for a in 0..4095, of the array kept as memf
MemGet(memf, a) == IF a \in DOMAIN memf THEN memf[a] ELSE 0

\* the array kept as memf after mem[a] = b, for a in 0..4095
MemSet(memf, a, b) ==
  [c \in (IF b = 0 THEN DOMAIN memf \ {a} ELSE DOMAIN memf \cup {a}) |->
     IF c = a THEN b ELSE memf[c]]

\* conversion of an int to uint8_t and to uint16_t
U8(n) == n % 256
U16(n) == n % 65536

(***************************************************************************)
(* load_rom.  A rom file either cannot be opened or holds a sequence of    *)
(* bytes.  load_rom leaves stack, guru_meditation, user_pause and          *)
(* prompting as they are.                                                  *)
(***************************************************************************)
NoFile == [exists |-> FALSE, bytes |-> <<>>]
File(bytes) == [exists |-> TRUE, bytes |-> bytes]

\* a size test that is off by one
TooLargeOffByOne(len) == len >= MemSize - LoadAddr

\* len > sizeof mem - pc, with pc = 512
TooLarge(len) == len > MemSize - LoadAddr

LoadResult(file) ==
  IF ~file.exists THEN 1
  ELSE IF TooLarge(Len(file.bytes)) THEN 2
  ELSE 0

\* mem after memset, the font loop and, when the rom fits, fread
LoadedMem(file) ==
  LET bytes == file.bytes
      len == IF LoadResult(file) = 0 THEN Len(bytes) ELSE 0
      fontAt == {a \in 0..(FontSize - 1) : font[a + 1] # 0}
      romAt == {LoadAddr + j - 1 : j \in {k \in 1..len : bytes[k] # 0}}
  IN  [a \in fontAt \cup romAt |->
         IF a < FontSize THEN font[a + 1] ELSE bytes[a - LoadAddr + 1]]

(***************************************************************************)
(* tick works on the record m of the globals it reads and writes; ks is    *)
(* the key latch.  Each instruction yields the new record, the value tick  *)
(* returns, whether an array was read outside its bounds (the value read   *)
(* is then unspecified: the parameter g) and whether a store fell outside  *)
(* its array (the store is then lost to the arrays of the model).          *)
(***************************************************************************)
Machine ==
  [mem |-> mem, stack |-> stack, sp |-> sp, v |-> v, i |-> i, pc |-> pc,
   dt |-> dt, st |-> st, screen |-> screen, prompting |-> prompting]

Result(m, r, badRead, badWrite) ==
  [m |-> m, res |-> r, oobRead |-> badRead, oobWrite |-> badWrite]

Ok(m) == Result(m, 0, FALSE, FALSE)
Invalid(m) == Result(m, 2, FALSE, FALSE)

\* pc = pc + 2
AdvancePC(m) == [m EXCEPT !.pc = U16(m.pc + 2)]

\* if (cond) pc = pc + 2;  pc = pc + 2;
Skip(m, cond) == AdvancePC(IF cond THEN AdvancePC(m) ELSE m)

\* a return that does not step over the call
ReturnNoAdvance(m, g) ==
  LET nsp == U8(m.sp - 1)
      inside == nsp < StackSize
      popped == IF inside THEN m.stack[nsp] ELSE g
  IN  Result([m EXCEPT !.sp = nsp, !.pc = popped], 0, ~inside, FALSE)

\* pc = stack[--sp]; pc = pc + 2
Return(m, g) ==
  LET nsp == U8(m.sp - 1)
      inside == nsp < StackSize
      popped == IF inside THEN m.stack[nsp] ELSE g
  IN  Result(AdvancePC([m EXCEPT !.sp = nsp, !.pc = popped]), 0, ~inside, FALSE)

\* a call that saves the address of the instruction after it
CallSavesNext(m, addr) ==
  LET inside == m.sp < StackSize
      nstack == IF inside THEN [m.stack EXCEPT ![m.sp] = U16(m.pc + 2)] ELSE m.stack
  IN  Result([m EXCEPT !.stack = nstack, !.sp = U8(m.sp + 1), !.pc = addr],
             0, FALSE, ~inside)

\* stack[sp++] = pc; pc = opcode & addr
Call(m, addr) ==
  LET inside == m.sp < StackSize
      nstack == IF inside THEN [m.stack EXCEPT ![m.sp] = m.pc] ELSE m.stack
  IN  Result([m EXCEPT !.stack = nstack, !.sp = U8(m.sp + 1), !.pc = addr],
             0, FALSE, ~inside)

\* case 0x0
Op0(m, opcode, g) ==
  IF opcode = 224 THEN Ok(AdvancePC([m EXCEPT !.screen = {}]))
  ELSE IF opcode = 238 THEN Return(m, g)
  ELSE Invalid(m)

(***************************************************************************)
(* case 0x8: the register-register group, on the register file vv.         *)
(***************************************************************************)
\* an add whose carry test is off by one
AluAddCarryOffByOne(vv, x, y) ==
  LET ans == vv[x] + vv[y]
      v1 == [vv EXCEPT ![x] = U8(ans)]
      v2 == [v1 EXCEPT ![15] = 0]
  IN  IF ans >= 255 THEN [v2 EXCEPT ![15] = 1] ELSE v2

\* case 0x4 of the group
AluAdd(vv, x, y) ==
  LET ans == vv[x] + vv[y]
      v1 == [vv EXCEPT ![x] = U8(ans)]
      v2 == [v1 EXCEPT ![15] = 0]
  IN  IF ans > 255 THEN [v2 EXCEPT ![15] = 1] ELSE v2

\* a subtraction that reports a borrow when the operands are equal
AluSubBorrowOnEqual(vv, x, y) ==
  LET ans == vv[x] - vv[y]
      v1 == [vv EXCEPT ![x] = U8(ans)]
      v2 == [v1 EXCEPT ![15] = 1]
  IN  IF ans <= 0 THEN [v2 EXCEPT ![15] = 0] ELSE v2

\* case 0x5 of the group
AluSub(vv, x, y) ==
  LET ans == vv[x] - vv[y]
      v1 == [vv EXCEPT ![x] = U8(ans)]
      v2 == [v1 EXCEPT ![15] = 1]
  IN  IF ans < 0 THEN [v2 EXCEPT ![15] = 0] ELSE v2

\* case 0x6 of the group: the flag is stored first, v[x] is halved after
AluShr(vv, x) ==
  LET v1 == [vv EXCEPT ![15] = vv[x] % 2]
  IN  [v1 EXCEPT ![x] = v1[x] \div 2]

\* case 0x7 of the group
AluSubn(vv, x, y) ==
  LET ans == vv[y] - vv[x]
      v1 == [vv EXCEPT ![x] = U8(ans)]
      v2 == [v1 EXCEPT ![15] = 1]
  IN  IF ans < 0 THEN [v2 EXCEPT ![15] = 0] ELSE v2

\* case 0xE of the group: the flag is stored first, v[x] is doubled after
AluShl(vv, x) ==
  LET v1 == [vv EXCEPT ![15] = vv[x] \div 128]
  IN  [v1 EXCEPT ![x] = U8(v1[x] * 2)]

AluValid(n) == n \in (0..7) \cup {14}

Alu(vv, x, y, n) ==
  CASE n = 0 -> [vv EXCEPT ![x] = vv[y]]
    [] n = 1 -> [vv EXCEPT ![x] = BitOr(vv[x], vv[y])]
    [] n = 2 -> [vv EXCEPT ![x] = BitAnd(vv[x], vv[y])]
    [] n = 3 -> [vv EXCEPT ![x] = BitXor(vv[x], vv[y])]
    [] n = 4 -> AluAdd(vv, x, y)
    [] n = 5 -> AluSub(vv, x, y)
    [] n = 6 -> AluShr(vv, x)
    [] n = 7 -> AluSubn(vv, x, y)
    [] n = 14 -> AluShl(vv, x)
    [] OTHER -> vv

Op8(m, x, y, n) ==
  IF AluValid(n) THEN Ok(AdvancePC([m EXCEPT !.v = Alu(m.v, x, y, n)]))
  ELSE Invalid(m)

(***************************************************************************)
(* Memory accesses of tick.  An index of 4096 or more is outside mem: a    *)
(* read there yields the unspecified byte g, a store there is lost.        *)
(***************************************************************************)
MemAt(m, a, g) == IF a < MemSize THEN MemGet(m.mem, a) ELSE g

\* mem[a] = b
Store(memf, a, b) == IF a < MemSize THEN MemSet(memf, a, b) ELSE memf

(***************************************************************************)
(* case 0xD.  The inner loop works on d: the registers, the screen, the    *)
(* byte line, which it shifts left as it goes, and its counter b.  v[x],   *)
(* v[y] and v[0xF] are read and written as the loops go.                   *)
(***************************************************************************)
RECURSIVE DrawBits(_, _, _, _)
DrawBits(d, x, y, a) ==
  IF d.b >= 8 THEN d
  ELSE LET xpos == (d.v[x] + d.b) % width
           ypos == (d.v[y] + a) % height
           lit == BitAnd(d.line, 128) > 0
           hit == <<xpos, ypos>> \in d.screen
       IN  DrawBits([d EXCEPT
                       !.v = IF lit /\ hit THEN [d.v EXCEPT ![15] = 1] ELSE d.v,
                       !.screen = IF ~lit THEN d.screen
                                  ELSE IF hit THEN d.screen \ {<<xpos, ypos>>}
                                  ELSE d.screen \cup {<<xpos, ypos>>},
                       !.line = U8(d.line * 2),
                       !.b = d.b + 1],
                    x, y, a)

\* the outer loop, on its state d: the registers, the screen and the
\* counter a
RECURSIVE DrawLoop(_, _, _, _, _, _)
DrawLoop(m, d, x, y, n, g) ==
  IF d.a >= n THEN d
  ELSE LET row == DrawBits([v |-> d.v, screen |-> d.screen,
                            line |-> MemAt(m, m.i + d.a, g), b |-> 0],
                           x, y, d.a)
       IN  DrawLoop(m, [v |-> row.v, screen |-> row.screen, a |-> d.a + 1],
                    x, y, n, g)

\* case 0xD
OpD(m, x, y, n, g) ==
  LET drawn == DrawLoop(m, [v |-> [m.v EXCEPT ![15] = 0], screen |-> m.screen,
                            a |-> 0],
                        x, y, n, g)
  IN  Result(AdvancePC([m EXCEPT !.v = drawn.v, !.screen = drawn.screen]),
             0, n > 0 /\ m.i + n - 1 >= MemSize, FALSE)

\* case 0xE: keys[v[x]] is outside keys when v[x] > 15; g is then the
\* unspecified value read
OpE(m, ks, x, lo, g) ==
  LET inside == m.v[x] < NumKeys
      pressed == IF inside THEN ks[m.v[x]] ELSE g
  IN  IF lo = 158 THEN Result(Skip(m, pressed), 0, ~inside, FALSE)
      ELSE IF lo = 161 THEN Result(Skip(m, ~pressed), 0, ~inside, FALSE)
      ELSE Invalid(m)

\* a scan of the keys from the top
HighestKey(ks) ==
  CHOOSE n \in 0..(NumKeys - 1) :
    ks[n] /\ \A k \in 0..(NumKeys - 1) : ks[k] => n >= k

\* the first n with keys[n] set, in the order of the for loop
LowestKey(ks) ==
  CHOOSE n \in 0..(NumKeys - 1) :
    ks[n] /\ \A k \in 0..(NumKeys - 1) : ks[k] => n <= k

\* a prompt that scans the keys only when it is reached by goto
PromptParksFirst(m, ks, x) ==
  IF m.prompting /\ \E n \in 0..(NumKeys - 1) : ks[n]
  THEN Ok(AdvancePC([m EXCEPT !.v[x] = LowestKey(ks), !.prompting = FALSE]))
  ELSE Ok([m EXCEPT !.prompting = TRUE])

\* a prompt that takes the key and leaves the latch set
PromptKeepsLatch(m, ks, x) ==
  IF \E n \in 0..(NumKeys - 1) : ks[n]
  THEN Ok(AdvancePC([m EXCEPT !.v[x] = LowestKey(ks), !.prompting = TRUE]))
  ELSE Ok([m EXCEPT !.prompting = TRUE])

\* the code at the label prompt, reached by case 0x0A and by goto
Prompt(m, ks, x) ==
  IF \E n \in 0..(NumKeys - 1) : ks[n]
  THEN Ok(AdvancePC([m EXCEPT !.v[x] = LowestKey(ks), !.prompting = FALSE]))
  ELSE Ok([m EXCEPT !.prompting = TRUE])

\* i = v[x] % 0xF * 5
FontAddr(b) == (b % 15) * 5

\* the three stores of case 0x33
Bcd(m, x) ==
  LET m0 == Store(m.mem, m.i + 0, m.v[x] \div 100)
      m1 == Store(m0, m.i + 1, (m.v[x] \div 10) % 10)
  IN  Store(m1, m.i + 2, m.v[x] % 10)

\* the loop of case 0x55, from j on
RECURSIVE DumpFrom(_, _, _, _)
DumpFrom(m, memf, x, j) ==
  IF j > x THEN memf
  ELSE DumpFrom(m, Store(memf, m.i + j, m.v[j]), x, j + 1)

Dump(m, x) == DumpFrom(m, m.mem, x, 0)

\* the loop of case 0x65
Fill(m, x, g) ==
  [j \in 0..(NumRegs - 1) |-> IF j <= x THEN MemAt(m, m.i + j, g) ELSE m.v[j]]

\* a case 0x18 that stores to dt, as case 0x15 does
OpFSoundSetsDelay(m, ks, x, lo, g) ==
  CASE lo = 7 -> Ok(AdvancePC([m EXCEPT !.v[x] = m.dt]))
    [] lo = 10 -> Prompt(m, ks, x)
    [] lo = 21 -> Ok(AdvancePC([m EXCEPT !.dt = m.v[x]]))
    [] lo = 24 -> Ok(AdvancePC([m EXCEPT !.dt = m.v[x]]))
    [] lo = 30 -> Ok(AdvancePC([m EXCEPT !.i = U16(m.i + m.v[x])]))
    [] lo = 41 -> Ok(AdvancePC([m EXCEPT !.i = FontAddr(m.v[x])]))
    [] lo = 51 -> Result(AdvancePC([m EXCEPT !.mem = Bcd(m, x)]),
                         0, FALSE, m.i + 2 >= MemSize)
    [] lo = 85 -> Result(AdvancePC([m EXCEPT !.mem = Dump(m, x),
                                             !.i = U16(m.i + x + 1)]),
                         0, FALSE, m.i + x >= MemSize)
    [] lo = 101 -> Result(AdvancePC([m EXCEPT !.v = Fill(m, x, g),
                                              !.i = U16(m.i + x + 1)]),
                          0, m.i + x >= MemSize, FALSE)
    [] OTHER -> Invalid(m)

\* case 0xF
OpF(m, ks, x, lo, g) ==
  CASE lo = 7 -> Ok(AdvancePC([m EXCEPT !.v[x] = m.dt]))
    [] lo = 10 -> Prompt(m, ks, x)
    [] lo = 21 -> Ok(AdvancePC([m EXCEPT !.dt = m.v[x]]))
    [] lo = 24 -> Ok(AdvancePC([m EXCEPT !.st = m.v[x]]))
    [] lo = 30 -> Ok(AdvancePC([m EXCEPT !.i = U16(m.i + m.v[x])]))
    [] lo = 41 -> Ok(AdvancePC([m EXCEPT !.i = FontAddr(m.v[x])]))
    [] lo = 51 -> Result(AdvancePC([m EXCEPT !.mem = Bcd(m, x)]),
                         0, FALSE, m.i + 2 >= MemSize)
    [] lo = 85 -> Result(AdvancePC([m EXCEPT !.mem = Dump(m, x),
                                             !.i = U16(m.i + x + 1)]),
                         0, FALSE, m.i + x >= MemSize)
    [] lo = 101 -> Result(AdvancePC([m EXCEPT !.v = Fill(m, x, g),
                                              !.i = U16(m.i + x + 1)]),
                          0, m.i + x >= MemSize, FALSE)
    [] OTHER -> Invalid(m)

(***************************************************************************)
(* tick from the fetch on: hi and lo are the bytes fetched, g the value of *)
(* a read outside an array, r the value of rand().                         *)
(***************************************************************************)
Step(m, ks, hi, lo, g, r) ==
  LET opcode == hi * 256 + lo
      x == hi % 16
      y == lo \div 16
      addr == opcode % 4096
      class == hi \div 16
  IN  IF m.prompting THEN Prompt(m, ks, x)
      ELSE CASE class = 0 -> Op0(m, opcode, g)
             [] class = 1 -> Ok([m EXCEPT !.pc = addr])
             [] class = 2 -> Call(m, addr)
             [] class = 3 -> Ok(Skip(m, m.v[x] = lo))
             [] class = 4 -> Ok(Skip(m, m.v[x] # lo))
             [] class = 5 -> Ok(Skip(m, m.v[x] = m.v[y]))
             [] class = 6 -> Ok(AdvancePC([m EXCEPT !.v[x] = lo]))
             [] class = 7 -> Ok(AdvancePC([m EXCEPT !.v[x] = U8(m.v[x] + lo)]))
             [] class = 8 -> Op8(m, x, y, lo % 16)
             [] class = 9 -> Ok(Skip(m, m.v[x] # m.v[y]))
             [] class = 10 -> Ok(AdvancePC([m EXCEPT !.i = addr]))
             [] class = 11 -> Ok([m EXCEPT !.pc = addr + m.v[0]])
             [] class = 12 -> Ok(AdvancePC([m EXCEPT !.v[x] = BitAnd(r % 255, lo)]))
             [] class = 13 -> OpD(m, x, y, lo % 16, g)
             [] class = 14 -> OpE(m, ks, x, lo, g)
             [] OTHER -> OpF(m, ks, x, lo, g)

(***************************************************************************)
(* The rom files of the model: short programs, given as instruction        *)
(* words, and images of about the largest size that fits.                  *)
(***************************************************************************)
OpXYN(c, x, y, n) == c * 4096 + x * 256 + y * 16 + n
OpXNN(c, x, nn) == c * 4096 + x * 256 + nn
OpNNN(c, nnn) == c * 4096 + nnn

RECURSIVE Prog(_)
Prog(ws) ==
  IF ws = <<>> THEN <<>>
  ELSE <<Head(ws) \div 256, Head(ws) % 256>> \o Prog(Tail(ws))

RegSample == {0, 1, 15}
RegPairs == {<<0, 1>>, <<1, 15>>, <<15, 0>>, <<15, 15>>, <<1, 1>>}
ByteSample == {0, 1, 5, 128, 255}

\* 6Xaa 6Ybb 8XY4
AddRoms ==
  { Prog(<<OpXNN(6, xy[1], a), OpXNN(6, xy[2], b), OpXYN(8, xy[1], xy[2], 4)>>) :
      <<xy, a, b>> \in RegPairs \X ByteSample \X ByteSample }

SubSample == {0, 1, 255}

\* 6Xaa 6Ybb 8XY5 and 6Xaa 6Ybb 8XY7
SubRoms ==
  { Prog(<<OpXNN(6, xy[1], a), OpXNN(6, xy[2], b), OpXYN(8, xy[1], xy[2], n)>>) :
      <<xy, a, b, n>> \in RegPairs \X SubSample \X SubSample \X {5, 7} }

ShiftSample == {0, 1, 128, 179, 255}

\* 6Xaa 6Y55 8XY6 and 6Xaa 6Y55 8XYE
ShiftRoms ==
  { Prog(<<OpXNN(6, xy[1], a), OpXNN(6, xy[2], 85), OpXYN(8, xy[1], xy[2], n)>>) :
      <<xy, a, n>> \in RegPairs \X ShiftSample \X {6, 14} }

DrawPairs == {<<0, 1>>, <<15, 1>>, <<1, 15>>}
DrawPos == {<<0, 0>>, <<60, 30>>, <<200, 100>>}
DrawRows == {0, 1, 5, 15}
\* the font glyph 0 and then the glyph 1, the two bytes after the program
\* twice, zero bytes twice
DrawSprites == {<<0, 5>>, <<524, 524>>, <<768, 768>>}

\* 6Xpx 6Ypy Aaaa DXYN Abbb DXYN FF81: two draws at the same place, and two
\* bytes of sprite data
DrawRoms ==
  { Prog(<<OpXNN(6, xy[1], p[1]), OpXNN(6, xy[2], p[2]), OpNNN(10, ab[1]),
           OpXYN(13, xy[1], xy[2], n), OpNNN(10, ab[2]), OpXYN(13, xy[1], xy[2], n),
           65409>>) :
      <<xy, p, n, ab>> \in DrawPairs \X DrawPos \X DrawRows \X DrawSprites }

DigitSample == {0, 1, 9, 14, 15, 16, 31, 255}

\* 6Xdd FX29
FontRoms ==
  { Prog(<<OpXNN(6, x, d), OpXNN(15, x, 41)>>) :
      <<x, d>> \in {0, 15} \X DigitSample }

\* 6X02 FX15 6X01 FX18 FX07 F10A: both timers set to different values, the
\* delay timer read, a wait for a key
TimerRoms ==
  { Prog(<<OpXNN(6, x, 2), OpXNN(15, x, 21), OpXNN(6, x, 1), OpXNN(15, x, 24),
           OpXNN(15, x, 7), OpXNN(15, 1, 10)>>) : x \in {0, 15} }

\* FX0A alone, and FX0A after and before other instructions
KeyRoms ==
  { Prog(<<OpXNN(15, x, 10)>>) : x \in RegSample }
  \cup { Prog(<<OpXNN(6, 0, 5), OpXNN(15, 1, 10), OpXNN(7, 1, 1), OpNNN(1, 518)>>) }

\* programs that index keys and mem past their ends: EX9E with VX = 16, BCD
\* at 0xFFE, a dump of V0, V1 at 0xFFF, a load of V0, V1 from 0xFFF, a sprite
\* of two rows at 0xFFF
WildRoms ==
  { Prog(<<OpXNN(6, 0, 16), OpXNN(14, 0, 158)>>),
    Prog(<<OpNNN(10, 4094), OpXNN(6, 0, 5), OpXNN(15, 0, 51)>>),
    Prog(<<OpNNN(10, 4095), OpXNN(6, 1, 7), OpXNN(15, 1, 85)>>),
    Prog(<<OpNNN(10, 4095), OpXNN(15, 1, 101)>>),
    Prog(<<OpNNN(10, 4095), OpXYN(13, 0, 0, 2)>>) }

\* words that no case of tick accepts, and 5XYN, 9XYN with N # 0
OddWords ==
  { OpNNN(0, 0), OpNNN(0, 225), OpNNN(0, 291), OpNNN(0, 3822),
    OpXYN(5, 0, 1, 1), OpXYN(5, 1, 1, 15), OpXYN(9, 0, 1, 1), OpXYN(9, 1, 1, 15),
    OpXYN(8, 0, 1, 8), OpXYN(8, 0, 1, 13), OpXYN(8, 0, 1, 15),
    OpXNN(14, 0, 0), OpXNN(14, 1, 159), OpXNN(14, 1, 160),
    OpXNN(15, 0, 0), OpXNN(15, 1, 11), OpXNN(15, 1, 102), OpXNN(15, 15, 255) }

OddRoms ==
  { Prog(<<OpXNN(6, 1, 1), OpXNN(15, 1, 21), OpXNN(15, 1, 24), OpNNN(10, 768), w>>) :
      w \in OddWords }

\* n calls, each of the next address
CallChain(n) == [k \in 1..n |-> OpNNN(2, LoadAddr + 2 * k)]

\* returns and calls: a return on the empty stack, a chain of calls that
\* overflows the stack, a call and its return, two nested calls
StackRoms ==
  { Prog(<<OpNNN(0, 238)>>),
    Prog(CallChain(StackSize + MaxOverflow)),
    Prog(<<OpNNN(2, 516), OpNNN(1, 514), OpNNN(0, 238)>>),
    Prog(<<OpNNN(2, 516), OpNNN(1, 514), OpNNN(2, 520), OpNNN(0, 238),
           OpNNN(0, 238)>>) }

\* programs that take pc to the end of mem and beyond
JumpRoms ==
  { Prog(<<OpXNN(6, 0, 255), OpNNN(11, 4095)>>),
    Prog(<<OpXNN(6, 0, 2), OpNNN(11, 512)>>),
    Prog(<<OpNNN(1, 4094)>>),
    Prog(<<OpNNN(1, 4095)>>) }

\* a program that runs through the other instructions: registers, skips,
\* the rest of the 8 group, I, the font, a sprite, BCD, dump and load of
\* registers, a random number, the key skips and clear screen
MiscRoms ==
  { Prog(<<OpXNN(6, 0, 3), OpXNN(7, 0, 254), OpXNN(3, 0, 1), OpXNN(4, 0, 1),
           OpXNN(6, 2, 179), OpXYN(8, 1, 2, 0), OpXYN(8, 1, 0, 1), OpXYN(8, 1, 2, 2),
           OpXYN(8, 1, 0, 3), OpXYN(8, 1, 2, 5), OpXYN(8, 2, 0, 6), OpXYN(8, 1, 2, 7),
           OpXYN(8, 2, 0, 14), OpXNN(15, 0, 41), OpXYN(5, 0, 1, 0),
           OpXYN(9, 0, 1, 0), OpNNN(0, 224), OpXYN(13, 0, 0, 5), OpXYN(13, 0, 0, 5),
           OpNNN(10, 768), OpXNN(15, 2, 51), OpXNN(15, 1, 85), OpNNN(10, 768),
           OpXNN(15, 3, 101), OpXNN(15, 0, 30), OpXNN(12, 4, 2), OpXNN(14, 0, 158),
           OpXNN(14, 0, 161), OpNNN(0, 224), OpXNN(15, 5, 7), OpNNN(0, 224)>>) }

\* an image of len bytes: a jump to 0xFFE, filler, and 6001 as the last
\* word of an image of 3584 bytes
BigRom(len) ==
  [j \in 1..len |->
     CASE j = 1 -> 31
       [] j = 2 -> 254
       [] j = 3583 -> 96
       [] j = 3584 -> 1
       [] OTHER -> 1 + (j % 255)]

BigRoms == { BigRom(MemSize - LoadAddr + d) : d \in {-1, 0, 1, 2} }

Roms ==
  { File(b) : b \in AddRoms \cup SubRoms \cup ShiftRoms \cup DrawRoms \cup FontRoms \cup TimerRoms
                     \cup KeyRoms \cup OddRoms \cup StackRoms
                     \cup JumpRoms \cup WildRoms \cup MiscRoms \cup BigRoms }
  \cup {NoFile}

(***************************************************************************)
(* The values a read outside an array may yield.  A byte of mem and a key  *)
(* flag range over their whole type; of the 65536 values of a stack slot   *)
(* the model takes a sample.                                               *)
(***************************************************************************)
GarbageWords == {0, 4094, 65534}

Garbage(hi) ==
  IF hi \div 16 = 0 THEN GarbageWords
  ELSE IF hi \div 16 = 14 THEN BOOLEAN
  ELSE Byte

\* a value of the type that the instruction would read
NoGarbage(hi) == IF hi \div 16 = 14 THEN FALSE ELSE 0

(***************************************************************************)
(* The state before main runs: the globals of chip8.c as initialised.      *)
(* res is not initialised by main; it is written before it is read.        *)
(***************************************************************************)
Init ==
  /\ mem = [a \in {} |-> 0]
  /\ stack = [a \in 0..(StackSize - 1) |-> 0]
  /\ sp = 0
  /\ v = [j \in 0..(NumRegs - 1) |-> 0]
  /\ i = 0
  /\ pc = 0
  /\ dt = 0
  /\ st = 0
  /\ screen = {}
  /\ keys = [j \in 0..(NumKeys - 1) |-> FALSE]
  /\ guru_meditation = FALSE
  /\ user_pause = FALSE
  /\ prompting = FALSE
  /\ res = 0
  /\ phase = "start"
  /\ rom \in Roms
  /\ oob = FALSE
  /\ ticked = FALSE

\* main from the label start to the loop: load_rom, and user_pause = false
\* when the rom was loaded; main returns when it was not
Boot ==
  /\ v' = [j \in 0..(NumRegs - 1) |-> 0]
  /\ screen' = {}
  /\ keys' = [j \in 0..(NumKeys - 1) |-> FALSE]
  /\ sp' = 0
  /\ i' = 0
  /\ pc' = LoadAddr
  /\ dt' = 0
  /\ st' = 0
  /\ res' = LoadResult(rom)
  /\ phase' = IF LoadResult(rom) = 0 THEN "loop" ELSE "exit"
  /\ user_pause' = IF LoadResult(rom) = 0 THEN FALSE ELSE user_pause
  /\ ticked' = FALSE
  /\ mem' = LoadedMem(rom)
  /\ UNCHANGED <<stack, guru_meditation, prompting, rom, oob>>

\* the program is started
Start ==
  /\ phase = "start"
  /\ Boot

\* SDL_KEYDOWN without Ctrl, for the key mapped to j
KeyDown(j) ==
  /\ phase = "loop"
  /\ keys' = [keys EXCEPT ![j] = TRUE]
  /\ ticked' = FALSE
  /\ UNCHANGED <<mem, stack, sp, v, i, pc, dt, st, screen, guru_meditation,
                 user_pause, prompting, res, phase, rom, oob>>

\* SDL_KEYUP for the key mapped to j
KeyUp(j) ==
  /\ phase = "loop"
  /\ keys' = [keys EXCEPT ![j] = FALSE]
  /\ ticked' = FALSE
  /\ UNCHANGED <<mem, stack, sp, v, i, pc, dt, st, screen, guru_meditation,
                 user_pause, prompting, res, phase, rom, oob>>

\* Ctrl+P
CtrlP ==
  /\ phase = "loop"
  /\ user_pause' = ~user_pause
  /\ ticked' = FALSE
  /\ UNCHANGED <<mem, stack, sp, v, i, pc, dt, st, screen, keys,
                 guru_meditation, prompting, res, phase, rom, oob>>

\* Ctrl+R: goto start, and main from there to the loop again
CtrlR ==
  /\ phase = "loop"
  /\ Boot

\* timers that are decremented without the test for zero
UpdateTimersNoFloor ==
  /\ phase = "loop"
  /\ dt' = U8(dt - 1)
  /\ st' = U8(st - 1)
  /\ ticked' = FALSE
  /\ UNCHANGED <<mem, stack, sp, v, i, pc, screen, keys, guru_meditation,
                 user_pause, prompting, res, phase, rom, oob>>

\* update_timers
UpdateTimers ==
  /\ phase = "loop"
  /\ dt' = IF dt > 0 THEN dt - 1 ELSE dt
  /\ st' = IF st > 0 THEN st - 1 ELSE st
  /\ ticked' = FALSE
  /\ UNCHANGED <<mem, stack, sp, v, i, pc, screen, keys, guru_meditation,
                 user_pause, prompting, res, phase, rom, oob>>

\* a tick that tests guru_meditation alone
SuspendedFaultOnly == guru_meditation

\* if (guru_meditation || user_pause) return 0
Suspended == guru_meditation \/ user_pause

\* if (pc >= sizeof mem) return 1
PcOutOfBounds == pc >= MemSize

\* a main that halts on an invalid opcode alone
FatalInvalidOnly(r) == r = 2

\* if (res == 1) guru_meditation = true;  if (res == 2) guru_meditation = true;
Fatal(r) == r = 1 \/ r = 2

(***************************************************************************)
(* res = tick() and the two tests of res that follow it in main.  A fetch  *)
(* at pc = 4095 reads its second byte outside mem.  After a store outside  *)
(* an array the process goes on, or it is killed.                          *)
(***************************************************************************)
Tick ==
  /\ phase = "loop"
  /\ IF Suspended
     THEN /\ res' = 0
          /\ UNCHANGED <<mem, stack, sp, v, i, pc, dt, st, screen, prompting,
                         phase, oob>>
     ELSE IF PcOutOfBounds
     THEN /\ res' = 1
          /\ UNCHANGED <<mem, stack, sp, v, i, pc, dt, st, screen, prompting,
                         phase, oob>>
     ELSE \E lo \in (IF pc + 1 < MemSize THEN {MemGet(mem, pc + 1)} ELSE Byte) :
          \E r \in (IF MemGet(mem, pc) \div 16 = 12 THEN 0..254 ELSE {0}) :
          \E g \in (IF Step(Machine, keys, MemGet(mem, pc), lo,
                            NoGarbage(MemGet(mem, pc)), r).oobRead
                    THEN Garbage(MemGet(mem, pc))
                    ELSE {NoGarbage(MemGet(mem, pc))}) :
            LET out == Step(Machine, keys, MemGet(mem, pc), lo, g, r)
            IN  /\ mem' = out.m.mem
                /\ stack' = out.m.stack
                /\ sp' = out.m.sp
                /\ v' = out.m.v
                /\ i' = out.m.i
                /\ pc' = out.m.pc
                /\ dt' = out.m.dt
                /\ st' = out.m.st
                /\ screen' = out.m.screen
                /\ prompting' = out.m.prompting
                /\ res' = out.res
                /\ oob' = (oob \/ pc + 1 >= MemSize \/ out.oobRead \/ out.oobWrite)
                /\ phase' \in (IF out.oobWrite THEN {"loop", "killed"} ELSE {"loop"})
  /\ guru_meditation' = (guru_meditation \/ Fatal(res'))
  /\ ticked' = TRUE
  /\ UNCHANGED <<keys, user_pause, rom>>

Next ==
  \/ Start
  \/ \E j \in 0..MaxKey : KeyDown(j)
  \/ \E j \in 0..MaxKey : KeyUp(j)
  \/ CtrlP
  \/ CtrlR
  \/ UpdateTimers
  \/ Tick

Spec == Init /\ [][Next]_vars

(***************************************************************************)
(* main with a rom that waits for a key.  The loop of main calls tick in   *)
(* every iteration, 15 times per frame, until the window is closed: a tick *)
(* that can change the state is eventually taken.                          *)
(***************************************************************************)
LiveRoms == { File(b) : b \in KeyRoms \cup TimerRoms }

LiveInit ==
  /\ mem = [a \in {} |-> 0]
  /\ stack = [a \in 0..(StackSize - 1) |-> 0]
  /\ sp = 0
  /\ v = [j \in 0..(NumRegs - 1) |-> 0]
  /\ i = 0
  /\ pc = 0
  /\ dt = 0
  /\ st = 0
  /\ screen = {}
  /\ keys = [j \in 0..(NumKeys - 1) |-> FALSE]
  /\ guru_meditation = FALSE
  /\ user_pause = FALSE
  /\ prompting = FALSE
  /\ res = 0
  /\ phase = "start"
  /\ rom \in LiveRoms
  /\ oob = FALSE
  /\ ticked = FALSE

LiveSpec == LiveInit /\ [][Next]_vars /\ WF_vars(Tick)

TypeOK ==
  /\ DOMAIN mem \subseteq 0..(MemSize - 1)
  /\ \A a \in DOMAIN mem : mem[a] \in 1..255
  /\ stack \in [0..(StackSize - 1) -> Word16]
  /\ sp \in Byte
  /\ v \in [0..(NumRegs - 1) -> Byte]
  /\ i \in Word16
  /\ pc \in Word16
  /\ dt \in Byte
  /\ st \in Byte
  /\ screen \subseteq (0..(width - 1)) \X (0..(height - 1))
  /\ keys \in [0..(NumKeys - 1) -> BOOLEAN]
  /\ guru_meditation \in BOOLEAN
  /\ user_pause \in BOOLEAN
  /\ prompting \in BOOLEAN
  /\ res \in {0, 1, 2}
  /\ phase \in {"start", "loop", "exit", "killed"}
  /\ oob \in BOOLEAN
  /\ ticked \in BOOLEAN

(***************************************************************************)
(* Properties.  A step of tick is a step that satisfies Tick; the          *)
(* properties state what such a step does in terms of the variables.       *)
(***************************************************************************)
Halted == guru_meditation \/ user_pause

\* tick fetches and decodes the word at pc
Fetches == ~Halted /\ ~prompting /\ pc + 1 < MemSize
\* mem[a] in this state
Mem(a) == MemGet(mem, a)
OpcodeAtPc == Mem(pc) * 256 + Mem(pc + 1)
XAtPc == Mem(pc) % 16
YAtPc == Mem(pc + 1) \div 16
SomeKeyPressed == \E n \in 0..15 : keys[n]

\* C1: whenever guru_meditation or user_pause is set, a step of tick returns
\* 0 and leaves registers, I, PC, stack, stack pointer, memory, both timers,
\* the framebuffer, the key latch and the key-wait latch unchanged.
C1_HaltedTickChangesNothing ==
  [][Halted /\ Tick =>
       /\ res' = 0
       /\ UNCHANGED <<mem, stack, sp, v, i, pc, dt, st, screen, keys, prompting>>]_vars

\* a tick has returned 0 on a machine that an invalid opcode or an
\* out-of-bounds pc halted away from the load address
C1_Witness ==
  guru_meditation /\ ticked /\ res = 0 /\ pc # LoadAddr /\ phase = "loop"

\* C2: a step of tick with no halt flag set and PC >= 4096 returns 1; a step
\* of tick that returns 1 or 2 sets guru_meditation; once set the flag stays
\* set, and every later step of tick returns 0 and leaves registers, I, PC,
\* stack, memory and framebuffer unchanged.
C2_FaultLatches ==
  [][/\ (~Halted /\ pc >= 4096 /\ Tick => res' = 1)
     /\ (res' \in {1, 2} /\ Tick => guru_meditation')
     /\ (guru_meditation => guru_meditation')
     /\ (guru_meditation /\ Tick =>
           /\ res' = 0
           /\ UNCHANGED <<v, i, pc, stack, sp, mem, screen>>)]_vars

\* after an out-of-bounds fault a later tick has returned 0
C2_Witness == pc >= 4096 /\ guru_meditation /\ ticked /\ res = 0

\* C3: after a load, whatever the state before it, guru_meditation is clear
\* and the key-wait latch is clear.
C3_LoadResetsLatches ==
  [][Boot => ~guru_meditation' /\ ~prompting']_vars

\* C4: load of an image of L bytes returns 0 iff L <= 3584 and 2 otherwise;
\* after either outcome mem[0..80) is the font table, PC = 0x200, registers,
\* I, stack pointer, timers, key latch and framebuffer are zero; on success
\* mem[0x200 .. 0x200+L) is the image, on failure no image byte is in mem.
C4_LoadContract ==
  [][Boot /\ rom.exists =>
       LET L == Len(rom.bytes)
       IN  /\ res' = (IF L <= 3584 THEN 0 ELSE 2)
           /\ \A a \in 0..79 : MemGet(mem', a) = font[a + 1]
           /\ pc' = 512
           /\ \A j \in 0..15 : v'[j] = 0 /\ keys'[j] = FALSE
           /\ i' = 0 /\ sp' = 0 /\ dt' = 0 /\ st' = 0 /\ screen' = {}
           /\ (L <= 3584 =>
                 /\ \A a \in 0..(L - 1) : MemGet(mem', 512 + a) = rom.bytes[a + 1]
                 /\ \A a \in (80..511) \cup ((512 + L)..4095) : MemGet(mem', a) = 0)
           /\ (L > 3584 => \A a \in 80..4095 : MemGet(mem', a) = 0)]_vars

\* an image of exactly 3584 bytes has been loaded, up to the last byte of mem
C4_Witness ==
  /\ phase = "loop"
  /\ Len(rom.bytes) = 3584
  /\ pc = 512
  /\ res = 0
  /\ Mem(4095) = rom.bytes[3584]
  /\ Mem(4095) # 0

\* v1 is the lowest-indexed pressed key
IsLowestPressed(n) == n \in 0..15 /\ keys[n] /\ \A k \in 0..15 : keys[k] => n <= k

\* C5 as claimed: while the machine waits for a key, a step of tick taken
\* with no key pressed changes nothing and keeps the latch set, and a step
\* of tick taken with a key pressed writes the lowest-indexed pressed key to
\* register X, clears the latch and advances PC by 2.
C5_WaitAndResume_Claimed ==
  [][prompting /\ Tick =>
       IF SomeKeyPressed
       THEN /\ IsLowestPressed(v'[XAtPc])
            /\ ~prompting'
            /\ pc' = pc + 2
       ELSE /\ prompting'
            /\ UNCHANGED <<mem, stack, sp, v, i, pc, dt, st, screen, keys>>]_vars

\* C5: while the machine waits for a key, a step of tick taken with no key
\* pressed, or with a halt flag set, changes nothing and keeps the latch set;
\* a step of tick taken with no halt flag set and a key pressed writes the
\* lowest-indexed pressed key to the register named by the X field of the
\* word at PC, clears the latch, advances PC by 2 and returns 0.
C5_WaitAndResume ==
  [][prompting /\ Tick =>
       IF SomeKeyPressed /\ ~Halted
       THEN /\ IsLowestPressed(v'[XAtPc])
            /\ \A j \in 0..15 : j # XAtPc => v'[j] = v[j]
            /\ ~prompting'
            /\ pc' = pc + 2
            /\ res' = 0
       ELSE /\ prompting'
            /\ res' = 0
            /\ UNCHANGED <<mem, stack, sp, v, i, pc, dt, st, screen, keys>>]_vars

\* the program 6005 F10A 7101 1206 has waited at 0x202 and a tick has just
\* resumed it with key 1 as the lowest key pressed
C5_Witness ==
  /\ phase = "loop"
  /\ ticked
  /\ ~prompting
  /\ Mem(512) = 96 /\ Mem(514) = 241 /\ Mem(515) = 10
  /\ pc = 516
  /\ v[0] = 5 /\ v[1] = 1
  /\ res = 0

FX0AAtPc == Mem(pc) \div 16 = 15 /\ Mem(pc + 1) = 10

\* C6 as claimed: the step of tick that first decodes FX0A sets the latch and
\* returns 0 without advancing PC and without writing register X, whatever
\* the key latch holds.
C6_FirstEncounterParks_Claimed ==
  [][Fetches /\ FX0AAtPc /\ Tick =>
       /\ prompting'
       /\ res' = 0
       /\ pc' = pc
       /\ v'[XAtPc] = v[XAtPc]]_vars

\* C6: the step of tick that first decodes FX0A returns 0; with no key
\* pressed it sets the latch and changes neither PC nor any register; with a
\* key pressed it takes the key in that same step: it writes the
\* lowest-indexed pressed key to register X, advances PC by 2 and leaves the
\* latch clear.
C6_FirstEncounter ==
  [][Fetches /\ FX0AAtPc /\ Tick =>
       /\ res' = 0
       /\ IF SomeKeyPressed
          THEN /\ IsLowestPressed(v'[XAtPc])
               /\ ~prompting'
               /\ pc' = pc + 2
          ELSE /\ prompting'
               /\ pc' = pc
               /\ v' = v]_vars

\* a tick has completed the F00A at the load address with key 1 held and
\* key 0 not: V0 is 1, PC is past the instruction and the latch is clear
C6_Witness ==
  /\ phase = "loop"
  /\ ticked
  /\ Mem(512) = 240 /\ Mem(513) = 10
  /\ pc = 514
  /\ ~prompting
  /\ keys[1] /\ ~keys[0]
  /\ v[0] = 1
  /\ res = 0

\* the words the instruction table of the specification has no row for
NoRow(w) ==
  LET class == w \div 4096
      n == w % 16
      nn == w % 256
  IN  \/ class = 0 /\ w \notin {224, 238}
      \/ class \in {5, 9} /\ n # 0
      \/ class = 8 /\ n \in (8..13) \cup {15}
      \/ class = 14 /\ nn \notin {158, 161}
      \/ class = 15 /\ nn \notin {7, 10, 21, 24, 30, 41, 51, 85, 101}

\* C7: a step of tick that decodes a word with no row in the instruction
\* table returns 2 and sets guru_meditation, with PC, registers, I, stack,
\* memory, timers and framebuffer unchanged.
C7_UnknownWordFaults ==
  [][Fetches /\ NoRow(OpcodeAtPc) /\ Tick =>
       /\ res' = 2
       /\ guru_meditation'
       /\ UNCHANGED <<pc, v, i, stack, sp, mem, dt, st, screen>>]_vars

\* C8: the stack pointer is in 0..16 in every reachable state and no stack
\* slot outside 0..15 is read or written.
C8_StackInBounds == sp \in 0..16

\* tick executes 00EE
ReturnAtPc == Fetches /\ OpcodeAtPc = 238

\* C9 as claimed: executing 00EE with 1..16 entries on the stack sets PC to
\* the value popped, with nothing added, and decrements the stack pointer.
C9_ReturnSetsPc_Claimed ==
  [][ReturnAtPc /\ sp \in 1..16 /\ Tick =>
       /\ pc' = stack[sp - 1]
       /\ sp' = sp - 1]_vars

\* C9: executing 00EE decrements the 8-bit stack pointer by one (modulo 256)
\* and, when the slot popped is one of the 16 slots of the stack, sets PC to
\* the value popped plus 2 (modulo 65536) in that same step.
C9_ReturnSetsPc ==
  [][ReturnAtPc /\ Tick =>
       /\ sp' = (sp - 1) % 256
       /\ res' = 0
       /\ (sp \in 1..16 => pc' = (stack[sp - 1] + 2) % 65536)]_vars

\* the program 2204 1202 00EE has returned from its call: PC is past the
\* call and the stack is empty again
C9_Witness ==
  /\ phase = "loop"
  /\ Mem(512) = 34 /\ Mem(513) = 4
  /\ Mem(516) = 0 /\ Mem(517) = 238
  /\ stack[0] = 512
  /\ sp = 0
  /\ pc = 514
  /\ ticked
  /\ res = 0

\* tick executes 8XY4
AddAtPc == Fetches /\ Mem(pc) \div 16 = 8 /\ Mem(pc + 1) % 16 = 4

\* C10: executing 8XY4 with VX = a and VY = b leaves VF = 1 iff a + b > 255
\* (else 0) for every X, leaves VX = (a + b) mod 256 when X # F, advances PC
\* by 2 and changes no other register; 6005 6105 8014 ends with V0 = 10 and
\* VF = 0.
C10_AddCarry ==
  /\ [][AddAtPc /\ Tick =>
          LET a == v[XAtPc]
              b == v[YAtPc]
          IN  /\ v'[15] = (IF a + b > 255 THEN 1 ELSE 0)
              /\ (XAtPc # 15 => v'[XAtPc] = (a + b) % 256)
              /\ \A j \in 0..14 : j # XAtPc => v'[j] = v[j]
              /\ pc' = pc + 2
              /\ res' = 0]_vars
  /\ [](rom.bytes = <<96, 5, 97, 5, 128, 20>> /\ pc = 518 => v[0] = 10 /\ v[15] = 0)

\* 8XY4 has been executed with X # F on two registers whose sum is 256
C10_Witness ==
  /\ phase = "loop"
  /\ ticked
  /\ pc = 518
  /\ Mem(516) = 128 /\ Mem(517) = 20
  /\ Mem(513) = 128 /\ Mem(515) = 128
  /\ v[0] = 0 /\ v[1] = 128 /\ v[15] = 1

\* tick executes the instruction n of the 8 group
AluAtPc(n) == Fetches /\ Mem(pc) \div 16 = 8 /\ Mem(pc + 1) % 16 = n

\* C11: executing 8XY5 with VX = a and VY = b leaves VF = 0 iff a < b (else
\* 1) for every X and VX = (a - b) mod 256 when X # F; executing 8XY7 leaves
\* VF = 0 iff b < a (else 1) for every X and VX = (b - a) mod 256 when X # F.
C11_SubBorrow ==
  [][(AluAtPc(5) \/ AluAtPc(7)) /\ Tick =>
       LET a == v[XAtPc]
           b == v[YAtPc]
       IN  /\ AluAtPc(5) =>
                /\ v'[15] = (IF a < b THEN 0 ELSE 1)
                /\ (XAtPc # 15 => v'[XAtPc] = (a - b) % 256)
           /\ AluAtPc(7) =>
                /\ v'[15] = (IF b < a THEN 0 ELSE 1)
                /\ (XAtPc # 15 => v'[XAtPc] = (b - a) % 256)]_vars

\* 6000 6101 8015 has been executed: 0 - 1 left V0 = 255 and VF = 0
C11_Witness ==
  /\ phase = "loop"
  /\ ticked
  /\ pc = 518
  /\ rom.bytes = <<96, 0, 97, 1, 128, 21>>
  /\ v[0] = 255 /\ v[1] = 1 /\ v[15] = 0

\* C12: executing 8XY6 with VX = a leaves VF = a mod 2 for every X and
\* VX = a div 2 when X # F; executing 8XYE leaves VF = a div 128 for every X
\* and VX = (2a) mod 256 when X # F; VY is not read.
C12_Shifts ==
  [][(AluAtPc(6) \/ AluAtPc(14)) /\ Tick =>
       LET a == v[XAtPc]
       IN  /\ AluAtPc(6) =>
                /\ v'[15] = a % 2
                /\ (XAtPc # 15 => v'[XAtPc] = a \div 2)
           /\ AluAtPc(14) =>
                /\ v'[15] = a \div 128
                /\ (XAtPc # 15 => v'[XAtPc] = (2 * a) % 256)]_vars

\* tick executes DXYN, and the N rows of the sprite are inside mem
DrawAtPc == Fetches /\ Mem(pc) \div 16 = 13
NAtPc == Mem(pc + 1) % 16
SpriteInMem == i + NAtPc <= MemSize

\* C13: when a step of tick executes DXYN and leaves VX and VY as they were,
\* executing the same DXYN once more in succession, with the same I and
\* sprite bytes, returns the framebuffer to what it was before the first
\* draw and leaves VF = 1.
C13_DrawTwiceRestores ==
  [][/\ DrawAtPc
     /\ SpriteInMem
     /\ Tick
     /\ v'[XAtPc] = v[XAtPc]
     /\ v'[YAtPc] = v[YAtPc]
     => LET X == XAtPc
            Y == YAtPc
            N == NAtPc
            again == OpD(Machine', X, Y, N, 0).m
        IN  /\ again.screen = screen
            /\ again.v[15] = 1]_vars

\* the pixels DXYN toggles according to the instruction table: bit b of row
\* a at ((VX + b) mod 64, (VY + a) mod 32), VX and VY as before the step
Toggled ==
  { <<(v[XAtPc] + b) % 64, (v[YAtPc] + a) % 32>> :
      <<a, b>> \in { ab \in (0..(NAtPc - 1)) \X (0..7) :
                       (Mem(i + ab[1]) \div (2 ^ (7 - ab[2]))) % 2 = 1 } }

\* C14: DXYN toggles exactly the pixels ((VX + b) mod 64, (VY + a) mod 32)
\* for which bit b of memory[I + a] is 1, with VX and VY as held before the
\* instruction; every other pixel is unchanged, and VF = 1 iff a toggled
\* pixel was on before the draw (else 0).
C14_DrawWraps ==
  [][DrawAtPc /\ SpriteInMem /\ Tick =>
       /\ screen' = (screen \ Toggled) \cup (Toggled \ screen)
       /\ v'[15] = (IF Toggled \cap screen # {} THEN 1 ELSE 0)]_vars

\* tick executes the instruction FXnn
FAtPc(nn) == Fetches /\ Mem(pc) \div 16 = 15 /\ Mem(pc + 1) = nn

\* C15: executing FX29 sets I to 5 times the low nibble of VX,
\* I = (VX mod 16) * 5, the address of the first byte of the font glyph of
\* that hex digit (75 for the digit F).
C15_FontAddress ==
  [][FAtPc(41) /\ Tick => i' = (v[XAtPc] % 16) * 5]_vars

C17_AdvanceTimers ==
  [][UpdateTimers =>
       /\ dt' = (IF dt > 0 THEN dt - 1 ELSE 0)
       /\ st' = (IF st > 0 THEN st - 1 ELSE 0)
       /\ UNCHANGED <<mem, stack, sp, v, i, pc, screen, keys, guru_meditation,
                      user_pause, prompting>>]_vars

\* the delay timer, set to 2, has been decremented to 1 while the machine
\* was paused and the sound timer stayed at 0
C17_Witness ==
  /\ phase = "loop"
  /\ ~ticked
  /\ user_pause
  /\ rom.bytes = <<96, 2, 240, 21, 96, 1, 240, 24, 240, 7, 241, 10>>
  /\ pc = 516
  /\ dt = 1
  /\ st = 0

\* the machine is parked by FX0A, no halt flag is set and a key is pressed
ParkedKeyDown == phase = "loop" /\ prompting /\ ~Halted /\ SomeKeyPressed

\* C18: once FX0A has parked the machine, if tick keeps being called and a
\* key is pressed, and still pressed with both halt flags clear when tick is
\* called, the wait ends: the latch is cleared, VX is the index of a pressed
\* key and PC is advanced by 2; until then no other instruction is executed:
\* a tick that leaves the latch set changes nothing.
C18_KeyWaitEnds ==
  /\ ParkedKeyDown ~> (~prompting \/ Halted \/ ~SomeKeyPressed)
  /\ [][ParkedKeyDown /\ Tick =>
          /\ ~prompting'
          /\ v'[XAtPc] \in {n \in 0..15 : keys[n]}
          /\ pc' = pc + 2]_vars
  /\ [][prompting /\ prompting' /\ Tick =>
          UNCHANGED <<mem, stack, sp, v, i, pc, dt, st, screen, keys>>]_vars

\* 6002 F015 6001 F018 F007 F10A is parked at its F10A, and key 1 has just
\* been pressed with no halt flag set
C18_Witness ==
  /\ ParkedKeyDown
  /\ ~ticked
  /\ rom.bytes = <<96, 2, 240, 21, 96, 1, 240, 24, 240, 7, 241, 10>>
  /\ pc = 522
  /\ keys[1] /\ ~keys[0]
  /\ v[1] = 0

\* the indices that tick uses in this state are inside mem and keys: the
\* two bytes of the fetch and, unless the machine waits for a key, the rows
\* of DXYN, the bytes of FX33, FX55 and FX65, the key of EX9E and EXA1
StepInRange ==
  /\ pc + 1 < MemSize
  /\ ~prompting =>
       /\ Mem(pc) \div 16 = 13 => i + NAtPc <= MemSize
       /\ Mem(pc) \div 16 = 15 /\ Mem(pc + 1) = 51 => i + 2 < MemSize
       /\ Mem(pc) \div 16 = 15 /\ Mem(pc + 1) \in {85, 101} => i + XAtPc < MemSize
       /\ Mem(pc) \div 16 = 14 /\ Mem(pc + 1) \in {158, 161} => v[XAtPc] < NumKeys

\* C19: in every step of tick taken with no halt flag set, every index used
\* is in range: PC and PC+1 of the fetch, the rows I .. I+N-1 of DXYN, the
\* bytes I .. I+2 of FX33 and I .. I+X of FX55 and FX65 are in 0..4095 and
\* the key index VX of EX9E and EXA1 is in 0..15; a step that would go out
\* of range faults instead and accesses nothing.
C19_IndicesInRange ==
  [][~Halted /\ Tick =>
       \/ StepInRange
       \/ /\ res' \in {1, 2}
          /\ UNCHANGED <<mem, stack, sp, v, i, pc, dt, st, screen, keys, prompting>>]_vars

\* tick executes 2NNN
CallAtPc == Fetches /\ Mem(pc) \div 16 = 2

\* the program 2204 1202 2208 00EE 00EE: a call at 0x200 of the code at
\* 0x204, which calls 0x208; both return
NestedCalls == rom.bytes = <<34, 4, 18, 2, 34, 8, 0, 238, 0, 238>>

====
